---------------------------- MODULE Spec2Model ----------------------------
(***************************************************************************)
(* Model of the batch analysis tool: the rate limiter (rate_limiter.py),   *)
(* the three provider clients (gemini_api.py, kimi_api.py,                 *)
(* deepseek_api.py) and the batch orchestrator (api_factory.py).           *)
(*                                                                         *)
(* The program is sequential.  Its position is the call stack pc, a        *)
(* sequence of labels whose head is the statement about to run; a call     *)
(* pushes the callee's entry label, a return pops it, and a raised         *)
(* exception unwinds the stack to the innermost enclosing handler.         *)
(*                                                                         *)
(* Time is counted in ticks of 1/TicksPerSecond second, and wait_minutes   *)
(* in 1/TicksPerSecond minute, so that wait_seconds = wait_minutes * 60    *)
(* holds literally as in the code.  The program reads the clock only to    *)
(* take the difference time.time() - self.last_call_time, so the model     *)
(* keeps that difference, elapsed, instead of the two absolute times:      *)
(* last_call_time = time.time() sets it to 0, last_call_time = 0 sets it   *)
(* to the time since the epoch, and passing time adds to it.  Differences  *)
(* of Epoch ticks or more are all kept as Epoch.                           *)
(***************************************************************************)
EXTENDS Integers, Sequences, FiniteSets, TLC

(***************************************************************************)
(* Bounds of the model                                                     *)
(***************************************************************************)
\* clock ticks in one 0.1 s step of the progress loop (resolution of the clock)
StepTicks == 2
\* least value of time.time() while the program runs, in ticks
Epoch == 100000
\* the rate limiter's stand-alone caller lets time pass while its clocks are
\* younger than this, in ticks
Horizon == 150
\* largest wait_minutes (in 1/TicksPerSecond minute) the harness configures
MaxWaitUnits == 2
\* largest max_retries a stand-alone call_api is given
MaxRetriesArg == 3
\* longest explicit prefix of a transport script
MaxScript == 3
\* largest number of files the user selects for a batch
NJobs == 4

TicksPerSecond == 10 * StepTicks

VARIABLES
    pc,                 \* call stack of labels, head = current statement
    escaped,            \* exception that left the outermost frame, or "none"
    \* ---- RateLimiter (rate_limiter.py)
    wait_minutes,       \* self.config.wait_minutes
    show_progress,      \* self.config.show_progress
    elapsed,            \* time.time() - self.last_call_time
    remaining,          \* local of wait()
    \* ---- observation of the rate limiter (history, not program state)
    ret_gap,            \* ticks between the returns of the last two wait(), -1 = none
    since_ret,          \* ticks since the last wait() returned, -1 = none
    since_call,         \* ticks since the running wait() was called, -1 = none
    just_reset,         \* last_call_time is 0 and no time has passed since it was set
    last_slept,         \* ticks the last wait() took
    \* ---- provider client (gemini_api.py, kimi_api.py, deepseek_api.py)
    api,                \* class of self.api: "gemini", "kimi" or "deepseek"
    transport,          \* what the remote service will answer to the next requests
    max_retries,        \* parameter of call_api
    attempt,            \* loop variable of call_api
    result,             \* value returned by call_api: "None", "text" or "empty"
    \* ---- observation of one call_api invocation (history, not program state)
    call_script,        \* transport as it was when call_api was entered
    n_attempts,         \* iterations of the retry loop that issued a request
    n_requests,         \* remote requests sent
    sleeps,             \* the time.sleep calls of the invocation: <<kind, seconds>>
    \* ---- ArticleAnalyzer (api_factory.py)
    file_paths,         \* argument of process_files: the Jobs, in order
    plan,               \* what each Job will meet, when fixed in advance; <<>> = anything
    stems,              \* the base file name (without directory and extension) of each Job
    disk,               \* the output files on disk: their paths
    i,                  \* loop index of process_files
    failed_tasks,       \* failed_tasks of process_files
    consecutive_failures,
    success,            \* first component of what process_file returned
    ri,                 \* loop index of retry_failed_tasks
    job,                \* file_path being processed
    env,                \* what the current Job meets: see Env
    retry_count,        \* local of process_single_file
    psf_ret,            \* what process_single_file returned: "None" or "text"
    outputs,            \* Jobs whose markdown result process_file has written
    \* ---- observation of the batch (history, not program state)
    results,            \* main pass: success of each Job attempted so far
    prompts,            \* main pass: indices after which the breaker prompt was shown
    halted,             \* how the main pass ended early: "no", "declined", "interrupted"
    retried,            \* retry pass: the Jobs attempted so far, in order
    attempted,          \* main pass: the Jobs attempted so far, in order
    waits,              \* calls of rate_limiter.wait in the current pass
    choice,             \* answer at the retry dialog: "none", "yes", "no", "cancel"
    main_wait,          \* wait_minutes when the retry dialog was shown, -1 = not shown
    dialog,             \* update_config: <<default offered, value confirmed>>, or <<>>
    job_calls,          \* call_api invocations for the current Job
    job_attempts,       \* remote attempts for the current Job
    term_mark,          \* <<job_calls, job_attempts>> when the Job got a terminal error
    since_remote,       \* ticks since the last remote request, -1 = none
    first_gap           \* ticks from the previous Job's last request to this Job's first

rlvars == <<wait_minutes, show_progress, remaining>>
rlhist == <<ret_gap, last_slept>>
apivars == <<api, transport, max_retries, attempt, result>>
apihist == <<call_script, n_attempts, n_requests, sleeps>>
orchvars == <<file_paths, plan, stems, disk, i, failed_tasks, consecutive_failures, success,
              ri, job, env, retry_count, psf_ret, outputs>>
orchhist == <<results, prompts, halted, retried>>
decision == <<attempted, waits, choice, main_wait, dialog>>
traffic == <<job_calls, job_attempts, term_mark, first_gap>>
clocks == <<elapsed, since_ret, since_call, since_remote, just_reset>>
vars == <<pc, escaped, clocks, rlvars, rlhist, apivars, apihist, orchvars, orchhist,
          decision, traffic>>

(***************************************************************************)
(* Call stack and exceptions                                               *)
(***************************************************************************)
Top == IF pc = <<>> THEN "halt" ELSE Head(pc)
Goto(l) == <<l>> \o Tail(pc)
Call(entry, ret) == <<entry, ret>> \o Tail(pc)
Return == Tail(pc)

\* The handler label of the try block that encloses the statement or call
\* site l and catches exception class e, or "none".  KeyboardInterrupt is a
\* BaseException: except Exception does not catch it, only the
\* except KeyboardInterrupt around the wait of process_files does.
HandlerFor_NoJobBoundary(l, e) ==
    CASE l = "pf_waited" /\ e = "KeyboardInterrupt" -> "pf_interrupted"
      [] l \in {"psf_while", "psf_called"} /\ e = "Exception" -> "psf_api_error"
      [] l \in {"process_single_file", "psf_api_error"} /\ e = "Exception" -> "psf_except"
      [] l = "rl_called" -> "rl_idle"
      [] OTHER -> "none"
HandlerFor(l, e) ==
    CASE l = "pf_waited" /\ e = "KeyboardInterrupt" -> "pf_interrupted"
      [] l \in {"psf_while", "psf_called"} /\ e = "Exception" -> "psf_api_error"
      [] l \in {"process_single_file", "psf_api_error"} /\ e = "Exception" -> "psf_except"
      [] l \in {"process_file", "pfile_got"} /\ e = "Exception" -> "pfile_except"
      [] l = "rl_called" -> "rl_idle"
      [] OTHER -> "none"

\* the stack after e is raised: frames without a handler are left
RECURSIVE Unwind(_, _)
Unwind(stack, e) ==
    IF stack = <<>> THEN <<>>
    ELSE IF HandlerFor(Head(stack), e) # "none"
         THEN <<HandlerFor(Head(stack), e)>> \o Tail(stack)
         ELSE Unwind(Tail(stack), e)

\* raise e at the current statement
Raise(e) ==
    /\ pc' = Unwind(pc, e)
    /\ escaped' = IF Unwind(pc, e) = <<>> THEN e ELSE escaped

(***************************************************************************)
(* Clocks                                                                  *)
(***************************************************************************)
Sat(x) == IF x > Epoch THEN Epoch ELSE x
Aged(x, d) == IF x = -1 THEN -1 ELSE Sat(x + d)

\* d ticks pass (time.sleep, or time spent elsewhere)
Pass(d) ==
    /\ elapsed' = Sat(elapsed + d)
    /\ since_ret' = Aged(since_ret, d)
    /\ since_call' = Aged(since_call, d)
    /\ since_remote' = Aged(since_remote, d)
    /\ just_reset' = (just_reset /\ d = 0)

\* a remote request is sent, then d ticks pass
PassRequest(d) ==
    /\ elapsed' = Sat(elapsed + d)
    /\ since_ret' = Aged(since_ret, d)
    /\ since_call' = Aged(since_call, d)
    /\ since_remote' = Sat(d)
    /\ just_reset' = (just_reset /\ d = 0)

(***************************************************************************)
(* RateLimiter                                                             *)
(***************************************************************************)
\* wait_seconds = self.config.wait_minutes * 60
WaitSeconds_NoFactor(m) == m
WaitSeconds(m) == m * 60

\* the progress loop: while remaining > 0: time.sleep(0.1); remaining -= 0.1
\* sleeps whole steps of 0.1 s until remaining is used up
ProgressSleep_ExtraStep(r) == (r \div StepTicks + 1) * StepTicks
ProgressSleep(r) == ((r + StepTicks - 1) \div StepTicks) * StepTicks

\* ticks slept by wait() for a given remaining
SleepTicks(r) == IF show_progress THEN ProgressSleep(r) ELSE r

\* self.last_call_time = time.time()
StampNow ==
    /\ elapsed' = 0
    /\ just_reset' = FALSE

\* wait(): current_time = time.time(); elapsed = ...; if elapsed < wait_seconds
Wait_Enter ==
    /\ Top = "wait"
    /\ LET wait_seconds == WaitSeconds(wait_minutes)
       IN IF elapsed < wait_seconds
          THEN /\ remaining' = wait_seconds - elapsed
               /\ pc' = Goto("wait_sleep")
          ELSE /\ remaining' = 0
               /\ pc' = Goto("wait_stamp")
    /\ UNCHANGED <<escaped, clocks, wait_minutes, show_progress, rlhist>>
    /\ UNCHANGED <<apivars, apihist, orchvars, orchhist, decision, traffic>>

\* the sleep of wait(), with or without the progress bar
Wait_Sleep ==
    /\ Top = "wait_sleep"
    /\ Pass(SleepTicks(remaining))
    /\ pc' = Goto("wait_stamp")
    /\ UNCHANGED <<escaped, rlvars, rlhist>>
    /\ UNCHANGED <<apivars, apihist, orchvars, orchhist, decision, traffic>>

\* the user presses Ctrl-C while wait() sleeps: KeyboardInterrupt leaves wait()
\* before last_call_time is written
Wait_Interrupt ==
    /\ Top = "wait_sleep"
    /\ Raise("KeyboardInterrupt")
    /\ remaining' = 0
    /\ UNCHANGED <<clocks, wait_minutes, show_progress, rlhist>>
    /\ UNCHANGED <<apivars, apihist, orchvars, orchhist, decision, traffic>>

\* self.last_call_time = time.time(), then wait() returns
Wait_Stamp ==
    /\ Top = "wait_stamp"
    /\ StampNow
    /\ remaining' = 0
    /\ pc' = Return
    /\ UNCHANGED <<escaped, since_ret, since_call, since_remote, wait_minutes,
                   show_progress, rlhist>>
    /\ UNCHANGED <<apivars, apihist, orchvars, orchhist, decision, traffic>>

\* reset_timer(): self.last_call_time = 0
ResetTimer_Now ==
    /\ elapsed' = 0
    /\ just_reset' = TRUE
ResetTimer ==
    /\ elapsed' = Epoch
    /\ just_reset' = TRUE

\* update_config(config): self.config = config
UpdateConfig(m, sp) ==
    /\ wait_minutes' = m
    /\ show_progress' = sp

\* RateLimiter.__init__: self.last_call_time = 0; nothing has happened yet
ClocksAtStart ==
    /\ elapsed = Epoch
    /\ since_ret = -1
    /\ since_call = -1
    /\ since_remote = -1
    /\ just_reset = TRUE

(***************************************************************************)
(* Provider clients: call_api of GeminiAPI, KimiAPI and DeepSeekAPI        *)
(***************************************************************************)
Providers == {"gemini", "kimi", "deepseek"}

\* What the remote service does with one request:
\*   "ok"        it answers with a text
\*   "empty"     it answers with an empty text
\*   "malformed" it answers, but the text cannot be read from the response
\*               (response.text raises, no "choices" in the body)
\*   "transient" the request raises the client's retryable exception
\*               (ServiceUnavailable, RequestException)
\*   "terminal"  the request raises any other exception (content-policy
\*               rejection)
Outcomes == {"ok", "empty", "malformed", "transient", "terminal"}
Answered == {"ok", "empty", "malformed"}

\* A transport script: the outcomes of the next requests, then rest for ever.
Script(pre, rest) == [pre |-> pre, rest |-> rest]
AllOk == Script(<<>>, "ok")
NoScript == Script(<<>>, "none")
NextOutcome(t) == IF t.pre = <<>> THEN t.rest ELSE Head(t.pre)
Consume(t) == IF t.pre = <<>> THEN t ELSE [t EXCEPT !.pre = Tail(t.pre)]

\* what format_article does for a Job: a prompt, an empty prompt, an exception
Fmts == {"ok", "empty", "raise"}

\* what a Job meets: whether its file can be read, what format_article does,
\* what the remote service answers, whether the output can be written
Env(f, sc, r, w) == [fmt |-> f, script |-> sc, readable |-> r, writable |-> w]
NoEnv == Env("none", NoScript, TRUE, TRUE)

\* the remote behaviours a Job of a batch meets: the service answers, fails
\* once and recovers, is down, rejects the content
Fine == Env("ok", AllOk, TRUE, TRUE)
Flaky == Env("ok", Script(<<"transient">>, "ok"), TRUE, TRUE)
Down == Env("ok", Script(<<>>, "transient"), TRUE, TRUE)
Blocked == Env("ok", Script(<<>>, "terminal"), TRUE, TRUE)
JobEnvs == {Fine, Flaky, Down, Blocked,
            Env("empty", AllOk, TRUE, TRUE), Env("raise", AllOk, TRUE, TRUE),
            Env("ok", AllOk, FALSE, TRUE), Env("ok", AllOk, TRUE, FALSE)}

\* the ArticleAnalyzer is not running
OrchIdle ==
    /\ file_paths = <<>>
    /\ plan = <<>>
    /\ stems = <<>>
    /\ i = 0
    /\ failed_tasks = <<>>
    /\ consecutive_failures = 0
    /\ success = FALSE
    /\ ri = 0
    /\ job = 0
    /\ env = NoEnv
    /\ retry_count = 0
    /\ psf_ret = "None"
    /\ outputs = {}
    /\ disk = {}
    /\ results = <<>>
    /\ prompts = <<>>
    /\ halted = "no"
    /\ retried = <<>>
    /\ attempted = <<>>
    /\ waits = 0
    /\ choice = "none"
    /\ main_wait = -1
    /\ dialog = <<>>
    /\ job_calls = 0
    /\ job_attempts = 0
    /\ term_mark = <<>>
    /\ first_gap = -1


\* def call_api(self, text, prompt, max_retries=3)
DefaultMaxRetries == 3
\* time.sleep(15) before the retry loop
PreCallSeconds == 15
\* time.sleep(10) after the answer of the service
PostCallSeconds == 10
\* KimiAPI: time.sleep(10) between the system request and the user request
BetweenSeconds == 10

\* time.sleep(10 + 5 ** attempt)
Backoff(a) == 10 + 5 ^ a

\* Whether the except clause that catches the failure of outcome o sleeps and
\* lets the loop go on (TRUE), or returns None (FALSE):
\*   GeminiAPI    except ServiceUnavailable: retry;  except Exception: return None
\*   KimiAPI      except RequestException: retry;    except Exception: return None
\*   DeepSeekAPI  except Exception: retry
IsRetried_Never(a, o) == FALSE
IsRetried(a, o) ==
    CASE a = "gemini" -> o = "transient"
      [] a = "kimi" -> o = "transient"
      [] a = "deepseek" -> TRUE

\* One request whose answer is the result of call_api (the only request of
\* GeminiAPI and DeepSeekAPI, the second of KimiAPI), at loop index a:
\* the sleeps taken, whether the loop goes on, and the value returned.
RequestResult(a, o, att) ==
    IF o \in {"ok", "empty"}
    THEN [slept |-> << <<"post", PostCallSeconds>> >>, go |-> "return",
          value |-> IF o = "ok" THEN "text" ELSE "empty"]
    ELSE LET post == IF o = "malformed" THEN << <<"post", PostCallSeconds>> >> ELSE <<>>
         IN IF IsRetried(a, o)
            THEN [slept |-> post \o << <<"backoff", Backoff(att)>> >>, go |-> "retry",
                  value |-> "None"]
            ELSE [slept |-> post, go |-> "return", value |-> "None"]

\* KimiAPI's first request (system message only): raise_for_status, sleep,
\* then the second request; its body is not read.
KimiFirstResult_Skip(o, att) == RequestResult("kimi", o, att)
KimiFirstResult(o, att) ==
    IF o \in Answered
    THEN [slept |-> << <<"between", BetweenSeconds>> >>, go |-> "second", value |-> "None"]
    ELSE RequestResult("kimi", o, att)

RECURSIVE SumSeconds(_)
SumSeconds(sl) == IF sl = <<>> THEN 0 ELSE Head(sl)[2] + SumSeconds(Tail(sl))

\* the loop of call_api goes on while attempt is in range(max_retries)
InRange_OneMore(att, mr) == att <= mr
InRange(att, mr) == att < mr

ApiHistCleared ==
    /\ call_script = NoScript
    /\ n_attempts = 0
    /\ n_requests = 0
    /\ sleeps = <<>>

\* observation of a remote request sent now: its distance to the previous
\* Job's last request if it is this Job's first, and a terminal answer
ObserveRequest ==
    /\ first_gap' = IF job_attempts = 0 /\ since_remote # -1
                    THEN since_remote ELSE first_gap
    /\ term_mark' = IF NextOutcome(transport) = "terminal" /\ term_mark = <<>>
                    THEN <<job_calls, job_attempts + 1>> ELSE term_mark

\* entry of call_api: build the request, time.sleep(15)
CallApi_Enter ==
    /\ Top = "call_api"
    /\ Pass(PreCallSeconds * TicksPerSecond)
    /\ sleeps' = << <<"pre", PreCallSeconds>> >>
    /\ call_script' = transport
    /\ n_attempts' = 0
    /\ n_requests' = 0
    /\ attempt' = 0
    /\ result' = "None"
    /\ pc' = Goto("ca_for")
    /\ UNCHANGED <<escaped, rlvars, rlhist, api, transport, max_retries>>
    /\ job_calls' = job_calls + 1
    /\ UNCHANGED <<orchvars, orchhist, decision, job_attempts, term_mark, first_gap>>

\* application of the result r of a request
ApplyRequest(r) ==
    /\ PassRequest(SumSeconds(r.slept) * TicksPerSecond)
    /\ sleeps' = sleeps \o r.slept
    /\ result' = r.value
    /\ attempt' = IF r.go = "retry" THEN attempt + 1 ELSE attempt
    /\ pc' = Goto(CASE r.go = "retry" -> "ca_for"
                    [] r.go = "second" -> "ca_second"
                    [] r.go = "return" -> "ca_done")

\* one iteration of for attempt in range(max_retries): the (first) request
CallApi_Attempt ==
    /\ Top = "ca_for"
    /\ InRange(attempt, max_retries)
    /\ LET o == NextOutcome(transport)
       IN ApplyRequest(IF api = "kimi" THEN KimiFirstResult(o, attempt)
                       ELSE RequestResult(api, o, attempt))
    /\ transport' = Consume(transport)
    /\ n_attempts' = n_attempts + 1
    /\ n_requests' = n_requests + 1
    /\ UNCHANGED <<escaped, rlvars, rlhist, api, max_retries, call_script>>
    /\ job_attempts' = job_attempts + 1
    /\ ObserveRequest
    /\ UNCHANGED <<orchvars, orchhist, decision, job_calls>>

\* KimiAPI: the second request of the iteration (prompt and user text)
Kimi_Second ==
    /\ Top = "ca_second"
    /\ ApplyRequest(RequestResult(api, NextOutcome(transport), attempt))
    /\ transport' = Consume(transport)
    /\ n_requests' = n_requests + 1
    /\ UNCHANGED <<escaped, rlvars, rlhist, api, max_retries, call_script, n_attempts>>
    /\ ObserveRequest
    /\ UNCHANGED <<orchvars, orchhist, decision, job_calls, job_attempts>>

\* the loop is over: print "all attempts failed", return None
CallApi_Exhausted ==
    /\ Top = "ca_for"
    /\ ~InRange(attempt, max_retries)
    /\ result' = "None"
    /\ pc' = Goto("ca_done")
    /\ UNCHANGED <<escaped, clocks, rlvars, rlhist, api, transport, max_retries, attempt,
                   apihist>>
    /\ UNCHANGED <<orchvars, orchhist, decision, traffic>>

\* call_api returns result to its caller; its locals are gone
CallApi_Return ==
    /\ Top = "ca_done"
    /\ pc' = Return
    /\ attempt' = 0
    /\ call_script' = NoScript
    /\ n_attempts' = 0
    /\ n_requests' = 0
    /\ sleeps' = <<>>
    /\ UNCHANGED <<escaped, clocks, rlvars, rlhist, api, transport, max_retries, result>>
    /\ UNCHANGED <<orchvars, orchhist, decision, traffic>>

(***************************************************************************)
(* A caller of call_api alone: one invocation of any client with any       *)
(* max_retries against any transport script.                               *)
(***************************************************************************)
RECURSIVE SeqsUpTo(_, _)
SeqsUpTo(S, n) ==
    IF n = 0 THEN {<<>>}
    ELSE LET shorter == SeqsUpTo(S, n - 1)
         IN shorter \cup {Append(q, x) : q \in shorter, x \in S}

Scripts == {Script(p, r) : p \in SeqsUpTo(Outcomes, MaxScript), r \in Outcomes}

InitAPI ==
    /\ pc = <<"call_api", "api_returned">>
    /\ escaped = "none"
    /\ ClocksAtStart
    /\ wait_minutes = 0
    /\ show_progress = TRUE
    /\ remaining = 0
    /\ ret_gap = -1
    /\ last_slept = 0
    /\ api \in Providers
    /\ transport \in Scripts
    /\ max_retries \in 0..MaxRetriesArg
    /\ attempt = 0
    /\ result = "None"
    /\ ApiHistCleared
    /\ OrchIdle

NextAPI ==
    \/ CallApi_Enter \/ CallApi_Attempt \/ Kimi_Second \/ CallApi_Exhausted
    \/ CallApi_Return

SpecAPI == InitAPI /\ [][NextAPI]_vars

(***************************************************************************)
(* A caller of the rate limiter alone: any sequence of wait(),             *)
(* reset_timer(), update_config(), forward stamps of last_call_time and    *)
(* passing time.                                                           *)
(***************************************************************************)
RL_CallWait ==
    /\ Top = "rl_idle"
    /\ pc' = Call("wait", "rl_called")
    /\ since_call' = 0
    /\ UNCHANGED <<escaped, elapsed, since_ret, since_remote, just_reset, rlvars, rlhist>>
    /\ UNCHANGED <<apivars, apihist, orchvars, orchhist, decision, traffic>>

\* wait() has returned: the caller notes when, and how long it took
RL_Returned ==
    /\ Top = "rl_called"
    /\ pc' = Goto("rl_idle")
    /\ ret_gap' = since_ret
    /\ since_ret' = 0
    /\ last_slept' = IF since_call = -1 THEN 0 ELSE since_call
    /\ since_call' = -1
    /\ UNCHANGED <<escaped, elapsed, since_remote, just_reset, rlvars>>
    /\ UNCHANGED <<apivars, apihist, orchvars, orchhist, decision, traffic>>

RL_ResetTimer ==
    /\ Top = "rl_idle"
    /\ elapsed # Epoch \/ ~just_reset
    /\ ResetTimer
    /\ ret_gap' = -1
    /\ since_ret' = -1
    /\ UNCHANGED <<pc, escaped, since_call, since_remote, rlvars, last_slept>>
    /\ UNCHANGED <<apivars, apihist, orchvars, orchhist, decision, traffic>>

RL_UpdateConfig ==
    /\ Top = "rl_idle"
    /\ \E m \in 0..MaxWaitUnits, sp \in BOOLEAN :
          /\ <<m, sp>> # <<wait_minutes, show_progress>>
          /\ UpdateConfig(m, sp)
    /\ ret_gap' = -1
    /\ since_ret' = -1
    /\ UNCHANGED <<pc, escaped, elapsed, since_call, since_remote, just_reset, remaining,
                   last_slept>>
    /\ UNCHANGED <<apivars, apihist, orchvars, orchhist, decision, traffic>>

\* the caller moves last_call_time forward to the current time
RL_Stamp ==
    /\ Top = "rl_idle"
    /\ elapsed # 0
    /\ StampNow
    /\ UNCHANGED <<pc, escaped, since_ret, since_call, since_remote, rlvars, rlhist>>
    /\ UNCHANGED <<apivars, apihist, orchvars, orchhist, decision, traffic>>

\* time passes in the caller: a whole wait unit, or a fraction of a progress
\* step once between two events
RL_Tick ==
    /\ Top = "rl_idle"
    /\ elapsed < Horizon \/ elapsed = Epoch
    /\ since_ret < Horizon
    /\ \E d \in {1, 60} :
          /\ d = 1 => (elapsed % StepTicks = 0 /\ since_ret % StepTicks = 0)
          /\ Pass(d)
    /\ UNCHANGED <<pc, escaped, rlvars, rlhist>>
    /\ UNCHANGED <<apivars, apihist, orchvars, orchhist, decision, traffic>>

InitRL ==
    /\ pc = <<"rl_idle">>
    /\ escaped = "none"
    /\ ClocksAtStart
    /\ wait_minutes \in 0..MaxWaitUnits
    /\ show_progress \in BOOLEAN
    /\ remaining = 0
    /\ ret_gap = -1
    /\ last_slept = 0
    /\ api = "gemini"
    /\ transport = AllOk
    /\ max_retries = DefaultMaxRetries
    /\ attempt = 0
    /\ result = "None"
    /\ ApiHistCleared
    /\ OrchIdle

NextRL ==
    \/ Wait_Enter \/ Wait_Sleep \/ Wait_Interrupt \/ Wait_Stamp
    \/ RL_CallWait \/ RL_Returned \/ RL_ResetTimer \/ RL_UpdateConfig
    \/ RL_Stamp \/ RL_Tick

SpecRL == InitRL /\ [][NextRL]_vars

(***************************************************************************)
(* ArticleAnalyzer: process_files, retry_failed_tasks, process_file,       *)
(* process_single_file                                                     *)
(***************************************************************************)
\* max_retries = 3 of process_single_file
PsfMaxRetries == 3
\* if consecutive_failures >= 3
BreakerThreshold == 3
\* wait_time = (retry_count + 1) * 60
RetryWaitSeconds(rc) == (rc + 1) * 60

\* while retry_count < max_retries:
PsfInRange_OneMore(rc) == rc <= PsfMaxRetries
PsfInRange(rc) == rc < PsfMaxRetries

\* if result: (None and the empty string are falsy)
Truthy_Any(r) == TRUE
Truthy(r) == r = "text"

\* if consecutive_failures >= 3:
BreakerTrips_Late(cf) == cf > BreakerThreshold
BreakerTrips(cf) == cf >= BreakerThreshold

\* for i, file_path in enumerate(...): index k is within the list
InList_SkipLast(k, paths) == k < Len(paths) - 1
InList(k, paths) == k < Len(paths)

\* if i > 0: the Job at index k is preceded by a wait
NeedsWait_Always(k) == TRUE
NeedsWait(k) == k > 0

\* failed_tasks.append(file_path)
Record_Drop(ft, p) == ft
Record(ft, p) == Append(ft, p)

\* consecutive_failures += 1
CountFailure_Twice(cf) == cf + 2
CountFailure(cf) == cf + 1

\* if failed_tasks:
AnyFailed_Always(ft) == TRUE
AnyFailed(ft) == ft # <<>>

\* default_minutes=self.rate_limiter.config.wait_minutes * 2
DoubledDefault_Same(m) == m
DoubledDefault(m) == m * 2

\* update_config: default_minutes=default_minutes or self.config.wait_minutes
DialogDefault(d) == IF d = 0 THEN wait_minutes ELSE d

\* wait_minutes the user enters in the dialog of RateLimiter(): 0 or 1.0
OrchWaits == {0, TicksPerSecond}

\* what the user leaves in the dialog of update_config, opened with a default:
\* the default, or the previous value typed again
DialogEntries(default) == {default, wait_minutes}

\* Job j starts: its environment, and a fresh observation of its traffic
StartJob(j) ==
    /\ job' = j
    /\ \E e \in IF plan = <<>> THEN JobEnvs ELSE {plan[j]} :
          /\ env' = e
          /\ transport' = e.script
    /\ job_calls' = 0
    /\ job_attempts' = 0
    /\ term_mark' = <<>>
    /\ first_gap' = -1

\* the Job and the observation of its traffic end; the distance to the last
\* request is kept for the next Job only if this Job sent one
EndJob ==
    /\ job' = 0
    /\ env' = NoEnv
    /\ transport' = AllOk
    /\ job_calls' = 0
    /\ job_attempts' = 0
    /\ term_mark' = <<>>
    /\ first_gap' = -1
    /\ since_remote' = IF job_attempts = 0 THEN -1 ELSE since_remote

\* process_files up to the loop: RateLimiter() asks the user for the
\* configuration, reset_timer(), failed_tasks = [], consecutive_failures = 0
PF_Start ==
    /\ Top = "process_files"
    /\ \E m \in OrchWaits, sp \in BOOLEAN : wait_minutes' = m /\ show_progress' = sp
    /\ ResetTimer
    /\ failed_tasks' = <<>>
    /\ consecutive_failures' = 0
    /\ i' = 0
    /\ pc' = Goto("pf_for")
    /\ UNCHANGED <<escaped, since_ret, since_call, since_remote, remaining, rlhist,
                   apivars, apihist, file_paths, plan, stems, success, ri, job, env,
                   retry_count, psf_ret, outputs, disk, orchhist, decision, traffic>>

\* for i, file_path in enumerate(file_paths): if i > 0: self.rate_limiter.wait(...)
PF_For ==
    /\ Top = "pf_for"
    /\ InList(i, file_paths)
    /\ pc' = IF NeedsWait(i) THEN Call("wait", "pf_waited") ELSE Goto("pf_process")
    /\ waits' = IF NeedsWait(i) THEN waits + 1 ELSE waits
    /\ UNCHANGED <<escaped, clocks, rlvars, rlhist, apivars, apihist, orchvars, orchhist,
                   attempted, choice, main_wait, dialog, traffic>>

\* the loop has run through file_paths
PF_LoopEnd ==
    /\ Top = "pf_for"
    /\ ~InList(i, file_paths)
    /\ pc' = Goto("pf_after")
    /\ UNCHANGED <<escaped, clocks, rlvars, rlhist, apivars, apihist, orchvars, orchhist,
                   decision, traffic>>

\* except KeyboardInterrupt: break
PF_Interrupted ==
    /\ Top = "pf_interrupted"
    /\ halted' = "interrupted"
    /\ pc' = Goto("pf_after")
    /\ UNCHANGED <<escaped, clocks, rlvars, rlhist, apivars, apihist, orchvars, results,
                   prompts, retried, decision, traffic>>

\* success, _ = self.process_file(file_path, prompt_file, pbar)
PF_Process ==
    /\ Top \in {"pf_waited", "pf_process"}
    /\ StartJob(file_paths[i + 1])
    /\ attempted' = Append(attempted, file_paths[i + 1])
    /\ pc' = Call("process_file", "pf_result")
    /\ UNCHANGED <<escaped, clocks, rlvars, rlhist, api, max_retries, attempt, result,
                   apihist, file_paths, plan, stems, i, failed_tasks, consecutive_failures,
                   success, ri, retry_count, psf_ret, outputs, disk, orchhist, waits,
                   choice, main_wait, dialog>>

\* self.rate_limiter.last_call_time = time.time() after a successful Job
StampAfterSuccess_Skip == UNCHANGED <<elapsed, just_reset>>
StampAfterSuccess == StampNow

\* the bookkeeping after process_file: failed list and counter, or the stamp
PF_Result ==
    /\ Top = "pf_result"
    /\ results' = Append(results, success)
    /\ IF ~success
       THEN /\ failed_tasks' = Record(failed_tasks, file_paths[i + 1])
            /\ consecutive_failures' = CountFailure(consecutive_failures)
            /\ IF BreakerTrips(CountFailure(consecutive_failures))
               THEN pc' = Goto("pf_ask") /\ i' = i
               ELSE pc' = Goto("pf_for") /\ i' = i + 1
            /\ UNCHANGED <<elapsed, just_reset>>
       ELSE /\ consecutive_failures' = 0
            /\ StampAfterSuccess
            /\ i' = i + 1
            /\ pc' = Goto("pf_for")
            /\ UNCHANGED failed_tasks
    /\ EndJob
    /\ UNCHANGED <<escaped, since_ret, since_call, rlvars, rlhist, api, max_retries,
                   attempt, result, apihist, file_paths, plan, stems, success, ri,
                   retry_count, psf_ret, outputs, disk, prompts, halted, retried, decision>>

\* messagebox.askyesno("连续失败", ...): no = break, yes = reset the counter
PF_Ask ==
    /\ Top = "pf_ask"
    /\ prompts' = Append(prompts, i)
    /\ \E yes \in BOOLEAN :
          IF yes
          THEN /\ consecutive_failures' = 0
               /\ i' = i + 1
               /\ pc' = Goto("pf_for")
               /\ UNCHANGED halted
          ELSE /\ halted' = "declined"
               /\ pc' = Goto("pf_after")
               /\ UNCHANGED <<consecutive_failures, i>>
    /\ UNCHANGED <<escaped, clocks, rlvars, rlhist, apivars, apihist, file_paths, plan,
                   stems, failed_tasks, success, ri, job, env, retry_count, psf_ret,
                   outputs, disk, results, retried, decision, traffic>>

\* after the loop: if failed_tasks: ask what to do with them
PF_After ==
    /\ Top = "pf_after"
    /\ pc' = IF AnyFailed(failed_tasks) THEN Goto("pf_choice") ELSE Return
    /\ UNCHANGED <<escaped, clocks, rlvars, rlhist, apivars, apihist, orchvars, orchhist,
                   decision, traffic>>

\* messagebox.askyesnocancel: yes = retry now, no = update_config with the
\* doubled wait as the dialog's default and retry, cancel = return
PF_Choice ==
    /\ Top = "pf_choice"
    /\ main_wait' = wait_minutes
    /\ \E ans \in {"yes", "no", "cancel"} :
          /\ choice' = ans
          /\ CASE ans = "cancel" ->
                   /\ pc' = Return
                   /\ UNCHANGED <<rlvars, ri, dialog>>
              [] ans = "yes" ->
                   /\ pc' = Call("rt_for", "pf_end")
                   /\ ri' = 0
                   /\ UNCHANGED <<rlvars, dialog>>
              [] ans = "no" ->
                   /\ \E m \in DialogEntries(DialogDefault(DoubledDefault(wait_minutes))),
                         sp \in BOOLEAN :
                         /\ UpdateConfig(m, sp)
                         /\ dialog' = <<DialogDefault(DoubledDefault(wait_minutes)), m>>
                   /\ pc' = Call("rt_for", "pf_end")
                   /\ ri' = 0
                   /\ UNCHANGED remaining
    /\ waits' = 0
    /\ UNCHANGED <<escaped, clocks, rlhist, apivars, apihist, file_paths, plan, stems, i,
                   failed_tasks, consecutive_failures, success, job, env, retry_count,
                   psf_ret, outputs, disk, orchhist, attempted, traffic>>

\* the call of retry_failed_tasks is the last statement of process_files
AfterRetry_AskAgain == Goto("pf_after")
AfterRetry == Return

\* retry_failed_tasks has returned: process_files returns
PF_End ==
    /\ Top = "pf_end"
    /\ pc' = AfterRetry
    /\ UNCHANGED <<escaped, clocks, rlvars, rlhist, apivars, apihist, orchvars, orchhist,
                   decision, traffic>>

\* retry_failed_tasks: for i, file_path in enumerate(failed_tasks):
\* if i > 0: self.rate_limiter.wait(...)   (outside any try)
RT_For ==
    /\ Top = "rt_for"
    /\ InList(ri, failed_tasks)
    /\ pc' = IF NeedsWait(ri) THEN Call("wait", "rt_waited") ELSE Goto("rt_process")
    /\ waits' = IF NeedsWait(ri) THEN waits + 1 ELSE waits
    /\ UNCHANGED <<escaped, clocks, rlvars, rlhist, apivars, apihist, orchvars, orchhist,
                   attempted, choice, main_wait, dialog, traffic>>

RT_LoopEnd ==
    /\ Top = "rt_for"
    /\ ~InList(ri, failed_tasks)
    /\ pc' = Return
    /\ UNCHANGED <<escaped, clocks, rlvars, rlhist, apivars, apihist, orchvars, orchhist,
                   decision, traffic>>

\* success, _ = self.process_file(file_path, prompt_file, pbar)
RT_Process ==
    /\ Top \in {"rt_waited", "rt_process"}
    /\ retried' = Append(retried, failed_tasks[ri + 1])
    /\ StartJob(failed_tasks[ri + 1])
    /\ pc' = Call("process_file", "rt_result")
    /\ UNCHANGED <<escaped, clocks, rlvars, rlhist, api, max_retries, attempt, result,
                   apihist, file_paths, plan, stems, i, failed_tasks, consecutive_failures,
                   success, ri, retry_count, psf_ret, outputs, disk, results, prompts,
                   halted, decision>>

\* only the description of the progress bar depends on success
RT_Result ==
    /\ Top = "rt_result"
    /\ ri' = ri + 1
    /\ pc' = Goto("rt_for")
    /\ EndJob
    /\ UNCHANGED <<escaped, elapsed, since_ret, since_call, just_reset, rlvars, rlhist, api,
                   max_retries, attempt, result, apihist, file_paths, plan, stems, i,
                   failed_tasks, consecutive_failures, success, retry_count, psf_ret,
                   outputs, disk, orchhist, decision>>

\* model_dir: os.path.join("book_2", "Gemini"), or the class name without "API"
ProviderDir(a) ==
    CASE a = "gemini" -> "Gemini"
      [] a = "kimi" -> "Kimi"
      [] a = "deepseek" -> "DeepSeek"

\* the suffix of save_name: gemini{model_version}, or the lowered api_name
VariantTag(a) == IF a = "gemini" THEN "gemini<version>" ELSE a

\* save_path for a file with base name st: book_2/<dir>/<st>_<tag>.md; the
\* directory and the extension of the input file do not enter it
SavePath(a, st) == <<"book_2", ProviderDir(a), st, VariantTag(a), "md">>

\* process_file: title, result = self.process_single_file(...)
PFile_Enter ==
    /\ Top = "process_file"
    /\ pc' = Call("process_single_file", "pfile_got")
    /\ UNCHANGED <<escaped, clocks, rlvars, rlhist, apivars, apihist, orchvars, orchhist,
                   decision, traffic>>

\* process_file after process_single_file: (False, None) without a result;
\* otherwise format_to_md, makedirs and the write, which raise when the
\* output directory or file cannot be written
PFile_Save ==
    /\ Top = "pfile_got"
    /\ IF ~Truthy(psf_ret)
       THEN success' = FALSE /\ pc' = Return /\ UNCHANGED <<outputs, disk, escaped>>
       ELSE IF env.writable
            THEN /\ success' = TRUE
                 /\ outputs' = outputs \cup {job}
                 /\ disk' = disk \cup {SavePath(api, stems[job])}
                 /\ pc' = Return
                 /\ UNCHANGED escaped
            ELSE Raise("Exception") /\ UNCHANGED <<success, outputs, disk>>
    /\ psf_ret' = "None"
    /\ result' = "None"
    /\ UNCHANGED <<clocks, rlvars, rlhist, api, transport, max_retries, attempt, apihist,
                   file_paths, plan, stems, i, failed_tasks, consecutive_failures, ri, job,
                   env, retry_count, orchhist, decision, traffic>>

\* process_file: except Exception: return False, None
PFile_Except ==
    /\ Top = "pfile_except"
    /\ success' = FALSE
    /\ pc' = Return
    /\ UNCHANGED <<escaped, clocks, rlvars, rlhist, apivars, apihist, file_paths, plan,
                   stems, i, failed_tasks, consecutive_failures, ri, job, env, retry_count,
                   psf_ret, outputs, disk, orchhist, decision, traffic>>

\* process_single_file: open and read the file, which raises when it cannot
\* be read; retry_count = 0
PSF_Enter ==
    /\ Top = "process_single_file"
    /\ IF env.readable
       THEN pc' = Goto("psf_while") /\ UNCHANGED escaped
       ELSE Raise("Exception")
    /\ retry_count' = 0
    /\ UNCHANGED <<clocks, rlvars, rlhist, apivars, apihist, file_paths, plan, stems, i,
                   failed_tasks, consecutive_failures, success, ri, job, env, psf_ret,
                   outputs, disk, orchhist, decision, traffic>>

\* process_single_file: the outer except Exception: return None, None
PSF_Except ==
    /\ Top = "psf_except"
    /\ psf_ret' = "None"
    /\ pc' = Return
    /\ retry_count' = 0
    /\ UNCHANGED <<escaped, clocks, rlvars, rlhist, apivars, apihist, file_paths, plan,
                   stems, i, failed_tasks, consecutive_failures, success, ri, job, env,
                   outputs, disk, orchhist, decision, traffic>>

\* one iteration of while retry_count < max_retries, up to the call of
\* call_api: format_article returns nothing (return None, None), raises, or
\* gives the prompt that call_api is called with
PSF_Iter ==
    /\ Top = "psf_while"
    /\ PsfInRange(retry_count)
    /\ CASE env.fmt = "empty" ->
              /\ psf_ret' = "None"
              /\ pc' = Return
              /\ retry_count' = 0
              /\ UNCHANGED <<escaped, max_retries>>
         [] env.fmt = "raise" ->
              /\ Raise("Exception")
              /\ UNCHANGED <<psf_ret, retry_count, max_retries>>
         [] env.fmt = "ok" ->
              /\ max_retries' = DefaultMaxRetries
              /\ pc' = Call("call_api", "psf_called")
              /\ UNCHANGED <<escaped, psf_ret, retry_count>>
    /\ UNCHANGED <<clocks, rlvars, rlhist, api, transport, attempt, result, apihist,
                   file_paths, plan, stems, i, failed_tasks, consecutive_failures, success,
                   ri, job, env, outputs, disk, orchhist, decision, traffic>>

\* the inner except Exception as api_error: the message of an exception of
\* format_article holds no "blocked prompt"; sleep unless this was the last
\* try; then retry_count += 1 at the end of the loop body
PSF_ApiError ==
    /\ Top = "psf_api_error"
    /\ Pass(IF retry_count < PsfMaxRetries - 1
            THEN RetryWaitSeconds(retry_count) * TicksPerSecond
            ELSE 0)
    /\ retry_count' = retry_count + 1
    /\ pc' = Goto("psf_while")
    /\ UNCHANGED <<escaped, rlvars, rlhist, apivars, apihist, file_paths, plan, stems, i,
                   failed_tasks, consecutive_failures, success, ri, job, env, psf_ret,
                   outputs, disk, orchhist, decision, traffic>>

\* result = self.api.call_api(...): if result: return title, result;
\* otherwise fall through to retry_count += 1
PSF_Called ==
    /\ Top = "psf_called"
    /\ IF Truthy(result)
       THEN psf_ret' = "text" /\ pc' = Return /\ retry_count' = 0
       ELSE retry_count' = retry_count + 1 /\ pc' = Goto("psf_while") /\ UNCHANGED psf_ret
    /\ UNCHANGED <<escaped, clocks, rlvars, rlhist, apivars, apihist, file_paths, plan,
                   stems, i, failed_tasks, consecutive_failures, success, ri, job, env,
                   outputs, disk, orchhist, decision, traffic>>

\* the while loop is over: return None, None
PSF_GiveUp ==
    /\ Top = "psf_while"
    /\ ~PsfInRange(retry_count)
    /\ psf_ret' = "None"
    /\ pc' = Return
    /\ retry_count' = 0
    /\ UNCHANGED <<escaped, clocks, rlvars, rlhist, apivars, apihist, file_paths, plan,
                   stems, i, failed_tasks, consecutive_failures, success, ri, job, env,
                   outputs, disk, orchhist, decision, traffic>>

\* main(): the user has chosen a model and the files paths, whose base names
\* are names; what the Jobs will meet is p
Start(paths, names, p) ==
    /\ pc = <<"process_files">>
    /\ escaped = "none"
    /\ ClocksAtStart
    /\ wait_minutes = 0
    /\ show_progress = TRUE
    /\ remaining = 0
    /\ ret_gap = -1
    /\ last_slept = 0
    /\ api \in Providers
    /\ transport = AllOk
    /\ max_retries = DefaultMaxRetries
    /\ attempt = 0
    /\ result = "None"
    /\ ApiHistCleared
    /\ file_paths = paths
    /\ plan = p
    /\ stems = names
    /\ i = 0
    /\ failed_tasks = <<>>
    /\ consecutive_failures = 0
    /\ success = FALSE
    /\ ri = 0
    /\ job = 0
    /\ env = NoEnv
    /\ retry_count = 0
    /\ psf_ret = "None"
    /\ outputs = {}
    /\ disk = {}
    /\ results = <<>>
    /\ prompts = <<>>
    /\ halted = "no"
    /\ retried = <<>>
    /\ attempted = <<>>
    /\ waits = 0
    /\ choice = "none"
    /\ main_wait = -1
    /\ dialog = <<>>
    /\ job_calls = 0
    /\ job_attempts = 0
    /\ term_mark = <<>>
    /\ first_gap = -1

\* a batch of one to NJobs files with base names of their own, each meeting
\* anything of JobEnvs
Init == \E n \in 1..NJobs : Start([k \in 1..n |-> k], [k \in 1..n |-> k], <<>>)

Next ==
    \/ PF_Start \/ PF_For \/ PF_LoopEnd \/ PF_Interrupted \/ PF_Process \/ PF_Result
    \/ PF_Ask \/ PF_After \/ PF_Choice \/ PF_End
    \/ RT_For \/ RT_LoopEnd \/ RT_Process \/ RT_Result
    \/ PFile_Enter \/ PFile_Save \/ PFile_Except
    \/ PSF_Enter \/ PSF_Except \/ PSF_Iter \/ PSF_ApiError \/ PSF_Called \/ PSF_GiveUp
    \/ CallApi_Enter \/ CallApi_Attempt \/ Kimi_Second \/ CallApi_Exhausted
    \/ CallApi_Return
    \/ Wait_Enter \/ Wait_Sleep \/ Wait_Interrupt \/ Wait_Stamp

Spec == Init /\ [][Next]_vars

(***************************************************************************)
(* C1: with wait_minutes = m configured, two consecutive wait() calls with *)
(* no reset_timer() (and no reconfiguration) between them return at least  *)
(* m*60 seconds apart, also when last_call_time was moved forward between. *)
(***************************************************************************)
C1_WaitPacing ==
    ret_gap # -1 => ret_gap >= wait_minutes * 60

\* two waits have returned with a positive interval configured, the second
\* after the caller had moved last_call_time forward and having slept
C1_Witness ==
    /\ ret_gap # -1
    /\ wait_minutes > 0
    /\ last_slept > 0
    /\ ret_gap > wait_minutes * 60
    /\ Top = "rl_idle"

(***************************************************************************)
(* C3: against a transport that fails transiently k times (k < max_retries)*)
(* and then succeeds, call_api of each client returns the success value    *)
(* after exactly k+1 attempts.                                             *)
(***************************************************************************)
RECURSIVE AllAre(_, _)
AllAre(q, x) == q = <<>> \/ (Head(q) = x /\ AllAre(Tail(q), x))

C3_RecoversAfterK ==
    (/\ Top = "ca_done"
     /\ call_script.rest = "ok"
     /\ AllAre(call_script.pre, "transient")
     /\ Len(call_script.pre) < max_retries)
    => (result = "text" /\ n_attempts = Len(call_script.pre) + 1)

\* a client has recovered at its last permitted attempt after two failures
C3_Witness ==
    /\ Top = "ca_done"
    /\ call_script = Script(<<"transient", "transient">>, "ok")
    /\ max_retries = 3
    /\ api = "kimi"
    /\ result = "text"
    /\ n_attempts = 3

(***************************************************************************)
(* C4: against a transport that always fails transiently, call_api of each *)
(* client returns None after exactly max_retries attempts.                 *)
(***************************************************************************)
C4_ExhaustsAfterMaxRetries ==
    (/\ Top = "ca_done"
     /\ call_script.rest = "transient"
     /\ AllAre(call_script.pre, "transient"))
    => (result = "None" /\ n_attempts = max_retries /\ n_requests = max_retries)

\* a client has given up after three transient failures
C4_Witness ==
    /\ Top = "ca_done"
    /\ call_script = Script(<<>>, "transient")
    /\ max_retries = 3
    /\ api = "deepseek"
    /\ n_attempts = 3
    /\ result = "None"

(***************************************************************************)
(* C5: given a terminal error on the first attempt, call_api of each of    *)
(* the three clients returns None after exactly one attempt, without retry *)
(* and without backoff sleep.                                              *)
(***************************************************************************)
NoBackoff == \A k \in 1..Len(sleeps) : sleeps[k][1] # "backoff"

C5_TerminalStopsAtOnce ==
    (/\ Top = "ca_done"
     /\ NextOutcome(call_script) = "terminal"
     /\ max_retries >= 1)
    => (result = "None" /\ n_attempts = 1 /\ NoBackoff)

(***************************************************************************)
(* C2: for two Jobs processed one after the other, in the main pass, in    *)
(* the retry pass or across the two, the first remote request of the later *)
(* Job is sent at least wait_minutes*60 seconds after the last remote      *)
(* request of the earlier Job, whether that Job succeeded or failed.       *)
(***************************************************************************)
C2_MinSpacing ==
    first_gap # -1 => first_gap >= wait_minutes * 60

(***************************************************************************)
(* C6: once the remote service has answered a Job's request with a         *)
(* terminal error, no further call_api invocation and no further remote    *)
(* attempt is made for that Job in the pass, and the Job comes back failed.*)
(***************************************************************************)
C6_TerminalAbortsJob ==
    term_mark # <<>> =>
        /\ job_calls = term_mark[1]
        /\ job_attempts = term_mark[2]
        /\ Top \in {"pf_result", "rt_result"} => ~success

(***************************************************************************)
(* C7: in the main pass the decision prompt is shown exactly when 3 Jobs   *)
(* have failed back-to-back, once, before the next Job is attempted; when  *)
(* the user declines, no further Job is attempted, and only attempted Jobs *)
(* are on the failed list or processed by the retry pass.                  *)
(***************************************************************************)
\* the loop indices at which the prompt is due, for the results res[k..] of
\* the Jobs attempted, after c failures in a row
RECURSIVE BreakerPrompts(_, _, _)
BreakerPrompts(res, k, c) ==
    IF k > Len(res) THEN <<>>
    ELSE IF res[k] THEN BreakerPrompts(res, k + 1, 0)
    ELSE IF c + 1 = 3 THEN <<k - 1>> \o BreakerPrompts(res, k + 1, 0)
    ELSE BreakerPrompts(res, k + 1, c + 1)

Attempted == {file_paths[k] : k \in 1..Len(results)}

ScenarioJobs == <<1, 2, 3, 4, 5>>
ScenarioPlan == <<Fine, Flaky, Blocked, Flaky, Fine>>

\* the scenario runs without a user interrupt and without local I/O errors
InitScenario == Start(ScenarioJobs, ScenarioJobs, ScenarioPlan)

NextScenario ==
    \/ PF_Start \/ PF_For \/ PF_LoopEnd \/ PF_Process \/ PF_Result
    \/ PF_After \/ PF_Choice \/ PF_End
    \/ RT_For \/ RT_LoopEnd \/ RT_Process \/ RT_Result
    \/ PFile_Enter \/ PFile_Save
    \/ PSF_Enter \/ PSF_Iter \/ PSF_Called \/ PSF_GiveUp
    \/ CallApi_Enter \/ CallApi_Attempt \/ Kimi_Second \/ CallApi_Exhausted
    \/ CallApi_Return
    \/ Wait_Enter \/ Wait_Sleep \/ Wait_Stamp

SpecScenario == InitScenario /\ [][NextScenario]_vars

C8_FailedList ==
    /\ failed_tasks \in {<<>>, <<3>>}
    /\ Len(results) = 5 =>
          /\ results = <<TRUE, TRUE, FALSE, TRUE, TRUE>>
          /\ failed_tasks = <<3>>
          /\ outputs = {1, 2, 4, 5}
    /\ retried \in {<<>>, <<3>>}
    /\ Top = "rt_result" => ~success
    /\ Top = "halt" => (failed_tasks = <<3>> /\ Cardinality(outputs) = 4)

\* the retry pass over <<Job 3>> has run and the batch has ended
C8_Witness ==
    /\ Top = "halt"
    /\ retried = <<3>>
    /\ failed_tasks = <<3>>
    /\ outputs = {1, 2, 4, 5}

(***************************************************************************)
(* C9: a user interrupt during a rate-limiter wait of the main pass or of  *)
(* the retry pass is caught: no exception leaves process_files, and Jobs   *)
(* not yet attempted are neither attempted nor put on the failed list.     *)
(***************************************************************************)
C9_InterruptCaught ==
    /\ escaped # "KeyboardInterrupt"
    /\ halted = "interrupted" =>
          /\ \A k \in 1..Len(failed_tasks) : failed_tasks[k] \in Attempted
          /\ job # 0 => job \in Attempted

(***************************************************************************)
(* C10: an error raised while a Job is processed (unreadable file, failing *)
(* format_article, remote error, unwritable output) never leaves           *)
(* process_file as an exception: process_file returns False, the main pass *)
(* puts the Job on the failed list, and the loop goes on to the next Job.  *)
(***************************************************************************)
JobError(e) ==
    \/ ~e.readable
    \/ e.fmt = "raise"
    \/ e.script \in {Down.script, Blocked.script}
    \/ ~e.writable

\* the Jobs among the first Len(res) whose result in res is a failure
RECURSIVE FailedOf(_, _)
FailedOf(res, k) ==
    IF k > Len(res) THEN <<>>
    ELSE (IF res[k] THEN <<>> ELSE <<file_paths[k]>>) \o FailedOf(res, k + 1)

InMainLoop ==
    \E k \in 1..Len(pc) :
        pc[k] \in {"process_files", "pf_for", "pf_waited", "pf_process", "pf_result",
                   "pf_ask", "pf_interrupted"}

C10_ErrorContainment ==
    /\ escaped # "Exception"
    /\ (Top \in {"pf_result", "rt_result"} /\ JobError(env)) => ~success
    /\ failed_tasks = FailedOf(results, 1)
    /\ (~InMainLoop /\ halted = "no") => Len(results) = Len(file_paths)

\* a Job whose output cannot be written has come back failed to the main
\* loop, which had gone on after the failure of the Job before it
C10_Witness ==
    /\ Top = "pf_result"
    /\ ~env.writable
    /\ ~success
    /\ escaped = "none"
    /\ results # <<>>
    /\ ~results[Len(results)]
    /\ failed_tasks # <<>>

(***************************************************************************)
(* C11: after the main pass the three-way decision is presented exactly    *)
(* when the failed list is not empty; "retry immediately" starts a retry   *)
(* pass with wait_minutes unchanged, "retry after longer wait" starts one  *)
(* after update_config, and "cancel" attempts no further Job and sends no  *)
(* further request.                                                        *)
(***************************************************************************)
InRetryPass == \E k \in 1..Len(pc) : pc[k] = "pf_end"

C12_DoubledDefault ==
    choice = "no" =>
        /\ dialog[1] = 2 * main_wait
        /\ wait_minutes = dialog[2]
        /\ dialog[2] = dialog[1] => wait_minutes = 2 * main_wait

\* the retry pass runs at the doubled wait, which the user accepted
C12_Witness ==
    /\ choice = "no"
    /\ main_wait > 0
    /\ wait_minutes = 2 * main_wait
    /\ retried # <<>>

\* C12 as stated: the retry pass always runs at exactly twice the old wait,
\* whatever the user confirms in the dialog
C12_ExactlyTwice == choice = "no" => wait_minutes = 2 * main_wait

(***************************************************************************)
(* C13: the retry pass attempts exactly the Jobs of the failed list, each  *)
(* once and in list order, never shows the consecutive-failure prompt, and *)
(* applies the per-Job steps of the main pass, among them the stamp of     *)
(* last_call_time after a successful Job.                                  *)
(***************************************************************************)
IsPrefix(s, t) == Len(s) <= Len(t) /\ \A k \in 1..Len(s) : s[k] = t[k]

\* the retry pass has just finished a Job successfully
RetrySucceeded == Top = "rt_for" /\ ri > 0 /\ success

\* the part that retry_failed_tasks keeps: list order, once each, no prompt
RetryInOrder ==
    /\ IsPrefix(retried, failed_tasks)
    /\ InRetryPass => Len(retried) \in {ri, ri + 1}
    /\ InRetryPass => Top # "pf_ask"

\* C13: the retry pass keeps the order of the failed list and stamps
\* last_call_time after every successful Job, as the main pass does
C13_RetryPassProcedure ==
    /\ RetryInOrder
    /\ RetrySucceeded => elapsed = 0

(***************************************************************************)
(* C14: reset_timer() sets last_call_time to 0, and a wait() issued right  *)
(* after it, before any time has passed, does not sleep and returns at     *)
(* once, whatever wait_minutes is (wait_minutes * 60 is below the current  *)
(* epoch time).                                                            *)
(***************************************************************************)
C14_ResetThenWait ==
    /\ WaitSeconds(wait_minutes) < Epoch
    /\ just_reset => elapsed = Epoch
    /\ Top = "wait_sleep" => ~just_reset
    /\ (Top = "wait_stamp" /\ just_reset) => (remaining = 0 /\ since_call = 0)

\* an earlier wait() has slept, reset_timer() was called, and the wait()
\* issued at once is about to return without having slept, at a positive
\* wait_minutes
C14_Witness ==
    /\ Top = "wait_stamp"
    /\ just_reset
    /\ wait_minutes > 0
    /\ last_slept > 0
    /\ since_call = 0

(***************************************************************************)
(* C15: every successfully processed Job of a batch has its own markdown   *)
(* file book_2/<Provider>/<base name>_<tag>.md: two successful Jobs never  *)
(* write to the same path, and as many files are written as Jobs           *)
(* succeeded.  The batches are files whose base names may coincide (the    *)
(* same name in two directories, or with two extensions).                  *)
(***************************************************************************)
MaxOutJobs == 3
MaxStems == 2

InitOut ==
    \E n \in 1..MaxOutJobs :
        \E names \in [1..n -> 1..MaxStems] : Start([k \in 1..n |-> k], names, <<>>)

SpecOut == InitOut /\ [][Next]_vars

\* C15: one output file per successful Job
C15_OneFilePerJob ==
    /\ \A a, b \in outputs : a # b => SavePath(api, stems[a]) # SavePath(api, stems[b])
    /\ Cardinality(disk) = Cardinality(outputs)

(***************************************************************************)
(* C16: what call_api gives its caller after a terminal failure differs    *)
(* from what it gives after max_retries transient failures.                *)
(***************************************************************************)
\* the value call_api of client a returns from the except clause of a
\* terminal failure
TerminalSignal(a) == RequestResult(a, "terminal", 0).value

\* call_api is about to return because the loop ran out after transient
\* failures only
ExhaustedOnTransient ==
    /\ Top = "ca_done"
    /\ max_retries > 0
    /\ attempt = max_retries
    /\ n_attempts = max_retries
    /\ \A k \in 1..Len(call_script.pre) : call_script.pre[k] = "transient"
    /\ Len(call_script.pre) < n_requests => call_script.rest = "transient"

\* C16: for a client that does not retry a terminal failure, the value
\* returned after exhaustion is not the value returned after a terminal failure
C16_DistinctSignals ==
    (ExhaustedOnTransient /\ ~IsRetried(api, "terminal")) => result # TerminalSignal(api)

(***************************************************************************)
(* C17: in the main pass the Jobs are attempted in list order, each once;  *)
(* unless the user declines at the breaker prompt or interrupts a wait,    *)
(* the pass ends only when every Job has been attempted, whatever Jobs     *)
(* failed on the way.                                                      *)
(***************************************************************************)
C17_SequentialCoverage ==
    /\ IsPrefix(attempted, file_paths)
    /\ InMainLoop => Len(attempted) \in {i, i + 1}
    /\ job # 0 /\ InMainLoop => attempted[Len(attempted)] = job
    /\ (~InMainLoop /\ halted = "no") => attempted = file_paths

\* a pass over four files has ended: the first three Jobs failed, the user
\* went on at the prompt, and the fourth Job was attempted and succeeded
C17_Witness ==
    /\ ~InMainLoop
    /\ halted = "no"
    /\ Len(file_paths) = 4
    /\ attempted = file_paths
    /\ prompts # <<>>
    /\ Len(results) = 4
    /\ ~results[1] /\ ~results[2] /\ ~results[3] /\ results[4]

(***************************************************************************)
(* C18: in the main pass and in the retry pass, wait() is called once      *)
(* before each Job at an index above 0 and not before the Job at index 0,  *)
(* and such a Job starts, and calls the provider, only after that wait()   *)
(* has returned.                                                           *)
(***************************************************************************)
InWait == \E k \in 1..Len(pc) : pc[k] \in {"wait", "wait_sleep", "wait_stamp"}

\* the index of the running loop
PassIndex == IF InRetryPass THEN ri ELSE i

\* the calls of wait() made in this pass once the Job at index k is reached
WaitsBefore(k) == IF k > 0 THEN k ELSE 0

C18_WaitPlacement ==
    /\ InWait => (job = 0 /\ PassIndex > 0 /\ waits = PassIndex)
    /\ Top \in {"pf_waited", "rt_waited"} => (PassIndex > 0 /\ waits = PassIndex)
    /\ Top \in {"pf_process", "rt_process"} => (PassIndex = 0 /\ waits = 0)
    /\ job # 0 => (~InWait /\ waits = WaitsBefore(PassIndex))
    /\ Top \in {"pf_for", "rt_for"} => waits = WaitsBefore(PassIndex - 1)
    /\ job = 0 => job_calls = 0

\* the second Job of a retry pass has called the provider, after the one
\* wait() of the pass
C18_Witness ==
    /\ InRetryPass
    /\ ri = 1
    /\ waits = 1
    /\ job # 0
    /\ job_calls > 0
    /\ wait_minutes > 0

(***************************************************************************)
(* C19: in the main pass consecutive_failures is the number of Jobs that   *)
(* failed since the last success or the last "continue" at the prompt; it  *)
(* is in 0..2 whenever a Job starts, the prompt is shown exactly when a    *)
(* failure brings it to 3, and a success or a "continue" sets it to 0.     *)
(***************************************************************************)
\* the number of results up to the last success or answered prompt
LastReset(res, pr) ==
    LET S == {k \in 1..Len(res) : res[k]} \cup {pr[k] + 1 : k \in 1..Len(pr)} \cup {0}
    IN CHOOSE m \in S : \A x \in S : x <= m

\* the failures since then
Streak(res, pr) == Len(res) - LastReset(res, pr)

Count(ft, p) == Cardinality({k \in 1..Len(ft) : ft[k] = p})

\* the books after the main pass has dealt with the first Len(results) Jobs
BooksKept ==
    \A k \in 1..Len(file_paths) :
        LET p == file_paths[k]
            written == p \in outputs /\ SavePath(api, stems[p]) \in disk
        IN IF k <= Len(results)
           THEN IF results[k]
                THEN written /\ Count(failed_tasks, p) = 0
                ELSE ~written /\ Count(failed_tasks, p) = 1
           ELSE Count(failed_tasks, p) = 0 /\ (written => p = job)

\* the step of the main pass that books the result of process_file
BooksStep ==
    (Top = "pf_result" /\ Top' # "pf_result") =>
        /\ success <=> job \in outputs
        /\ results' = Append(results, success)
        /\ ~success =>
              /\ failed_tasks' = Append(failed_tasks, job)
              /\ consecutive_failures' = consecutive_failures + 1
              /\ outputs' = outputs
        /\ success => failed_tasks' = failed_tasks

C20_SuccessXorFailure == [](choice = "none" => BooksKept) /\ [][BooksStep]_vars

\* a main pass over three files has ended with the second Job written and
\* the first and the third on the failed list
C20_Witness ==
    /\ Top = "pf_after"
    /\ results = <<FALSE, TRUE, FALSE>>
    /\ outputs = {2}
    /\ failed_tasks = <<1, 3>>
    /\ consecutive_failures = 1

(***************************************************************************)
(* C21: process_files sets last_call_time to 0 before the first Job of a   *)
(* batch, and afterwards last_call_time is the current time after every    *)
(* Job that sent a remote request, whether the Job succeeded or failed.    *)
(***************************************************************************)
\* the main pass has just booked a Job that sent at least one request
BookedAfterRequest ==
    /\ Top \in {"pf_for", "pf_ask"}
    /\ results # <<>>
    /\ since_remote # -1

\* the part that holds: the reset before the first Job
ResetBeforeFirstJob == (InMainLoop /\ i = 0 /\ Top # "process_files") => elapsed = Epoch

C21_TimestampLifecycle ==
    /\ ResetBeforeFirstJob
    /\ BookedAfterRequest => elapsed = 0

IsBackoff(x) == x[1] = "backoff"

\* the backoff sleeps of the invocation so far, in order
BackoffsTaken == SelectSeq(sleeps, IsBackoff)

\* the part that holds: the k-th backoff follows attempt k - 1 and is
\* 10 + 5^(k - 1) seconds, more than the one before
BackoffAmounts ==
    /\ \A k \in 1..Len(BackoffsTaken) : BackoffsTaken[k][2] = 10 + 5 ^ (k - 1)
    /\ \A k \in 2..Len(BackoffsTaken) : BackoffsTaken[k][2] > BackoffsTaken[k - 1][2]
    /\ Len(BackoffsTaken) = attempt

\* C23: the amounts, and no backoff after the last attempt of an exhausted call
C23_BackoffSchedule ==
    /\ BackoffAmounts
    /\ (Top = "ca_done" /\ max_retries > 0 /\ attempt = max_retries) =>
          Len(BackoffsTaken) = n_attempts - 1

(***************************************************************************)
(* C24: in every call_api invocation the pre-call delay is taken once,     *)
(* before the first attempt and not before retries; the post-call delay is *)
(* taken once if and only if an attempt succeeds, after that attempt and   *)
(* before the result is returned, and never on a failed invocation.        *)
(***************************************************************************)
IsPre(x) == x[1] = "pre"
IsPost(x) == x[1] = "post"

\* the part that holds: one pre-call delay, first of all sleeps
PreDelayOnce ==
    Top \in {"ca_for", "ca_second", "ca_done"} =>
        /\ Len(SelectSeq(sleeps, IsPre)) = 1
        /\ sleeps[1] = <<"pre", PreCallSeconds>>

\* C24: the pre-call delay, and the post-call delay exactly on success
C24_FixedDelays ==
    /\ PreDelayOnce
    /\ (Top = "ca_done" /\ result # "None") =>
          /\ Len(SelectSeq(sleeps, IsPost)) = 1
          /\ sleeps[Len(sleeps)] = <<"post", PostCallSeconds>>
    /\ (Top = "ca_done" /\ result = "None") => Len(SelectSeq(sleeps, IsPost)) = 0

(***************************************************************************)
(* C25: KimiAPI.call_api returns a value only if, within one attempt, the  *)
(* system-only request and then the request with prompt and text both      *)
(* succeed, in that order; if either fails transiently the attempt has     *)
(* failed and the next attempt starts again with the first request.        *)
(***************************************************************************)
\* the outcome of the k-th request of the invocation
OutcomeAt(k) ==
    IF k <= Len(call_script.pre) THEN call_script.pre[k] ELSE call_script.rest

\* where an invocation of KimiAPI stands
KimiOrder ==
    api = "kimi" =>
        /\ Top = "ca_second" =>
              /\ OutcomeAt(n_requests) \in Answered
              /\ result = "None"
        /\ Top = "ca_for" => result = "None"
        /\ (Top = "ca_done" /\ result # "None") =>
              /\ n_requests >= 2
              /\ OutcomeAt(n_requests - 1) \in Answered
              /\ OutcomeAt(n_requests) \in {"ok", "empty"}
        /\ Top \in {"ca_for", "ca_second", "ca_done"} =>
              /\ n_attempts <= n_requests
              /\ n_requests <= 2 * n_attempts

\* the steps of an invocation of KimiAPI
KimiStep ==
    (api = "kimi" /\ Top \in {"ca_for", "ca_second"}) =>
        /\ result' # "None" => (Top = "ca_second" /\ Top' = "ca_done")
        /\ Top' = "ca_second" => (Top = "ca_for" /\ n_attempts' = n_attempts + 1)
        /\ (n_requests' # n_requests /\ NextOutcome(transport) = "transient") =>
              /\ Top' = "ca_for"
              /\ attempt' = attempt + 1
              /\ result' = "None"

C25_KimiTwoRequests == []KimiOrder /\ [][KimiStep]_vars

\* the second request of the first attempt failed transiently, the second
\* attempt sent both requests again and its answer is returned
C25_Witness ==
    /\ api = "kimi"
    /\ Top = "ca_done"
    /\ result = "text"
    /\ attempt = 1
    /\ n_attempts = 2
    /\ n_requests = 4
    /\ call_script.pre = <<"ok", "transient", "ok">>

(***************************************************************************)
(* C26: after a successful Job the main pass stamps last_call_time, so the *)
(* wait() before the next Job returns no earlier than wait_minutes * 60    *)
(* seconds after the successful Job finished.                              *)
(***************************************************************************)
LastJobSucceeded == results # <<>> /\ results[Len(results)]

\* ticks since the last Job finished, for a Job that succeeded: its last
\* request was followed by the post-call delay and nothing else
SinceJobFinished == since_remote - PostCallSeconds * TicksPerSecond

C26_WaitAfterSuccess ==
    /\ (Top = "pf_for" /\ LastJobSucceeded) => (elapsed = 0 /\ SinceJobFinished = 0)
    /\ (Top = "wait_stamp" /\ InMainLoop /\ LastJobSucceeded) =>
          /\ SinceJobFinished >= WaitSeconds(wait_minutes)
          /\ SinceJobFinished = elapsed

\* the wait() after a successful Job has slept the whole minute
C26_Witness ==
    /\ Top = "wait_stamp"
    /\ InMainLoop
    /\ LastJobSucceeded
    /\ wait_minutes > 0
    /\ SinceJobFinished = WaitSeconds(wait_minutes)

(***************************************************************************)
(* C27: in one pass process_single_file invokes call_api at most 3 times   *)
(* for a Job: a None or empty result is retried at once, without a delay   *)
(* and without a rate-limiter wait, a raised exception after               *)
(* (retry_count + 1) * 60 seconds; so a Job causes at most 9 remote        *)
(* attempts per pass and at most 18 over a main pass and a retry pass.     *)
(***************************************************************************)
\* the passes in which Job p has been started
Runs(p) == Count(attempted, p) + Count(retried, p)

\* process_single_file is on the stack, in its loop
InPsfLoop == \E k \in 1..Len(pc) : pc[k] \in {"psf_while", "psf_called", "psf_api_error"}

TrafficBound ==
    /\ job_calls <= 3
    /\ job_attempts <= 9
    /\ job_attempts <= job_calls * max_retries
    /\ InPsfLoop => (retry_count <= 3 /\ job_calls <= retry_count + 1)
    /\ \A k \in 1..Len(file_paths) : Runs(file_paths[k]) * 9 <= 18

\* the two ways process_single_file goes round its loop
PsfRetryStep ==
    /\ (Top = "psf_called" /\ ~Truthy(result)) =>
          /\ UNCHANGED <<elapsed, since_remote, waits>>
          /\ Top' = "psf_while"
          /\ retry_count' = retry_count + 1
    /\ (Top = "psf_api_error" /\ Top' = "psf_while") =>
          /\ retry_count' = retry_count + 1
          /\ waits' = waits
          /\ (/\ retry_count < 2
              /\ since_remote \in 0..RetryWaitSeconds(3) * TicksPerSecond) =>
                since_remote' = since_remote + (retry_count + 1) * 60 * TicksPerSecond
          /\ retry_count >= 2 => since_remote' = since_remote

\* longest explicit prefix of the transport script of the single Job
MaxJobScript == 2

\* what the single Job meets: anything of JobEnvs, or any transport script
JobBehaviours ==
    JobEnvs \cup {Env("ok", Script(p, r), TRUE, TRUE) :
                     p \in SeqsUpTo(Outcomes, MaxJobScript), r \in Outcomes}

\* a batch of one file, which meets the same in the main and the retry pass
InitJob == \E e \in JobBehaviours : Start(<<1>>, <<1>>, <<e>>)

NextJob ==
    \/ PF_Start \/ PF_For \/ PF_LoopEnd \/ PF_Process \/ PF_Result
    \/ PF_After \/ PF_Choice \/ PF_End
    \/ RT_For \/ RT_LoopEnd \/ RT_Process \/ RT_Result
    \/ PFile_Enter \/ PFile_Save \/ PFile_Except
    \/ PSF_Enter \/ PSF_Except \/ PSF_Iter \/ PSF_ApiError \/ PSF_Called \/ PSF_GiveUp
    \/ CallApi_Enter \/ CallApi_Attempt \/ Kimi_Second \/ CallApi_Exhausted
    \/ CallApi_Return

SpecJob == InitJob /\ [][NextJob]_vars

MaxLiveJobs == 3

InitLive ==
    \E n \in 1..MaxLiveJobs : Start([k \in 1..n |-> k], [k \in 1..n |-> k], <<>>)

\* the program goes on as long as it has a next statement
FairSpec == InitLive /\ [][Next]_vars /\ WF_vars(Next)

AtMostTwice ==
    /\ \A k \in 1..Len(file_paths) :
          /\ Count(attempted, file_paths[k]) <= 1
          /\ Count(retried, file_paths[k]) <= 1
          /\ Runs(file_paths[k]) <= 2
    /\ InRetryPass => (choice \in {"yes", "no"} /\ Top # "pf_choice")
    /\ Len(retried) <= Len(failed_tasks)

\* the retry pass leaves the failed list alone and is not entered again
RetryPassStep ==
    /\ InRetryPass => failed_tasks' = failed_tasks
    /\ choice # "none" => (choice' = choice /\ Top' # "pf_choice")
    /\ (InRetryPass /\ ~InRetryPass') => pc' = <<>>

C28_Terminates == <>(pc = <<>>) /\ []AtMostTwice /\ [][RetryPassStep]_vars

\* a batch of three files has ended after the breaker prompt and a retry
\* pass over all of them
C28_Witness ==
    /\ pc = <<>>
    /\ escaped = "none"
    /\ Len(file_paths) = 3
    /\ prompts # <<>>
    /\ retried = file_paths
    /\ attempted = file_paths

=============================================================================
